---- MODULE Spec2Model ----
(***************************************************************************)
(* Model of the AI news aggregator: the three fetchers                     *)
(* (aggregator/fetchers/youtube.py, openai_news.py, smol_ai.py) and the    *)
(* sequential runner (aggregator/runner.py).                               *)
(*                                                                         *)
(* Conventions.  Optional[X] is a sequence of length <= 1: None is <<>>    *)
(* and a present value x is <<x>>.  A Python str is a sequence of          *)
(* one-character tokens; an HTML tag counts as one token.  A datetime is   *)
(* an integer number of clock units (UTC).  What a library call does to    *)
(* the outside world (feedparser.parse, httpx.get, the transcript API) is  *)
(* an input of the operator that models the caller.                        *)
(***************************************************************************)
EXTENDS Integers, Sequences, FiniteSets, TLC

VARIABLES
    now,          \* the UTC clock read by datetime.now(tz=timezone.utc)
    call,         \* the latest completed call of a public fetcher function
    prev,         \* the call completed before it
    pc,           \* run_all_fetchers: the loop the run is in
    idx,          \* run_all_fetchers: sources of the current loop already processed
    config,       \* run_all_fetchers: the configured source lists
    cutoff,       \* run_all_fetchers: cutoff (runner.py:69)
    all_entries,  \* run_all_fetchers: all_entries (runner.py:72)
    log,          \* run_all_fetchers: what each processed source did, in order
    escaped       \* run_all_fetchers: the exception that left the run, if any

vars == <<now, call, prev, pc, idx, config, cutoff, all_entries, log, escaped>>
apiVars == <<call, prev>>
runVars == <<pc, idx, config, cutoff, all_entries, log, escaped>>

---------------------------------------------------------------------------
(* Bounds of the model *)

MaxTime == 2
MaxFeedLen == 3
MaxRawLen == 2
MaxPad == 1
MaxSnippets == 2
MaxSources == 3
MaxHours == 2

---------------------------------------------------------------------------
(* Values *)

None == <<>>
Some(x) == <<x>>

Times == 0..MaxTime
OptTimes == {None} \cup {Some(t) : t \in Times}

Tag == "<b>"
Whitespace == {" ", "\n"}
Chars == {"a", " ", "\n", Tag}

SeqsUpTo(S, n) == UNION {[1..k -> S] : k \in 0..n}

Raw == SeqsUpTo(Chars, MaxRawLen)

NoExc == "none"

---------------------------------------------------------------------------
(* str.strip() *)

RECURSIVE LStrip(_)
LStrip(s) ==
    IF s # <<>> /\ Head(s) \in Whitespace THEN LStrip(Tail(s)) ELSE s

RECURSIVE RStrip(_)
RStrip(s) ==
    IF s # <<>> /\ s[Len(s)] \in Whitespace
    THEN RStrip(SubSeq(s, 1, Len(s) - 1))
    ELSE s

Strip(s) == RStrip(LStrip(s))

(* sep.join(parts) *)
RECURSIVE Join(_, _)
Join(parts, sep) ==
    IF parts = <<>> THEN <<>>
    ELSE IF Len(parts) = 1 THEN parts[1]
    ELSE parts[1] \o sep \o Join(Tail(parts), sep)

---------------------------------------------------------------------------
(* _strip_html: BeautifulSoup(raw).get_text(separator=" "), then the two   *)
(* re.sub calls, then strip().                                             *)

(* The text nodes of the parsed markup: the maximal tag-free runs. *)
RECURSIVE TextNodes(_, _)
TextNodes(raw, cur) ==
    IF raw = <<>> THEN (IF cur = <<>> THEN <<>> ELSE <<cur>>)
    ELSE IF Head(raw) = Tag
         THEN (IF cur = <<>> THEN <<>> ELSE <<cur>>) \o TextNodes(Tail(raw), <<>>)
         ELSE TextNodes(Tail(raw), Append(cur, Head(raw)))

GetText(raw) == Join(TextNodes(raw, <<>>), <<" ">>)

(* re.sub(r"[ \t]+", " ", text): a space that follows a space is dropped. *)
RECURSIVE CollapseSpacesFrom(_, _)
CollapseSpacesFrom(s, i) ==
    IF i > Len(s) THEN <<>>
    ELSE (IF s[i] = " " /\ i > 1 /\ s[i - 1] = " " THEN <<>> ELSE <<s[i]>>)
         \o CollapseSpacesFrom(s, i + 1)

CollapseSpaces(s) == CollapseSpacesFrom(s, 1)

(* re.sub(r"\n{3,}", "\n\n", text): a newline that follows two is dropped. *)
RECURSIVE CollapseNewlinesFrom(_, _)
CollapseNewlinesFrom(s, i) ==
    IF i > Len(s) THEN <<>>
    ELSE (IF s[i] = "\n" /\ i > 2 /\ s[i - 1] = "\n" /\ s[i - 2] = "\n"
          THEN <<>> ELSE <<s[i]>>)
         \o CollapseNewlinesFrom(s, i + 1)

CollapseNewlines(s) == CollapseNewlinesFrom(s, 1)

_strip_html(raw) == Strip(CollapseNewlines(CollapseSpaces(GetText(raw))))

---------------------------------------------------------------------------
(* Feeds, as feedparser.parse returns them *)

(* The raw pubDate string of an item, by what parsedate_to_datetime does   *)
(* with it: "" (absent), a string it rejects, or a date it reads, with the *)
(* instant (UTC) that astimezone gives.                                    *)
EmptyDate == [kind |-> "empty", utc |-> 0]
BadDate == [kind |-> "unparseable", utc |-> 0]
Rfc2822(t) == [kind |-> "rfc2822", utc |-> t]
RawDates == {EmptyDate, BadDate} \cup {Rfc2822(t) : t \in Times}

(* The two date fields of an item: a structured time, or only a string. *)
DateFields ==
    {[published_parsed |-> Some(t), published |-> EmptyDate] : t \in Times}
    \cup {[published_parsed |-> None, published |-> r] : r \in RawDates}

(* An RSS item: link is the item's place in the feed. *)
RssItem(i, d, content, summary) ==
    [link |-> i, published_parsed |-> d.published_parsed,
     published |-> d.published, content |-> content, summary |-> summary]

Parsed(entries, bozo) == [raises |-> FALSE, bozo |-> bozo, entries |-> entries]
ParseRaises == [raises |-> TRUE, bozo |-> TRUE, entries |-> <<>>]

(* Feeds whose items differ in their dates. *)
DatedRssFeeds ==
    UNION {{Parsed([i \in 1..n |-> RssItem(i, ds[i], <<>>, Some(<<"a">>))], FALSE) :
               ds \in [1..n -> DateFields]} : n \in 1..MaxFeedLen}

SomeDate == [published_parsed |-> Some(MaxTime), published |-> EmptyDate]

(* One-item feeds whose item differs in its text fields. *)
OptRaw == {None} \cup {Some(r) : r \in Raw}

TextRssFeeds ==
    {Parsed(<<RssItem(1, SomeDate, <<>>, s)>>, FALSE) : s \in OptRaw}

(* An unreachable or empty feed: feedparser flags it and gives no entries. *)
EmptyFeeds == {Parsed(<<>>, b) : b \in BOOLEAN}

OpenaiFeeds == {ParseRaises} \cup EmptyFeeds \cup DatedRssFeeds \cup TextRssFeeds

---------------------------------------------------------------------------
(* aggregator/fetchers/openai_news.py *)

OpenAINewsEntry(post_id, published_at, content) ==
    [kind |-> "OpenAINewsEntry", post_id |-> post_id,
     published_at |-> published_at, content |-> content]

_parse_pubdate(item, clock) ==
    IF item.published_parsed # None THEN item.published_parsed[1]
    ELSE IF item.published.kind = "rfc2822" THEN item.published.utc
    ELSE clock

(* openai_scan with continue in the place of break. *)
RECURSIVE openai_scan_continue(_, _, _, _)
openai_scan_continue(items, i, since, clock) ==
    IF i > Len(items) THEN <<>>
    ELSE LET item == items[i]
             published_at == _parse_pubdate(item, clock)
             raw_content == IF item.summary = None THEN <<>> ELSE item.summary[1]
             content == IF raw_content # <<>> THEN Some(_strip_html(raw_content))
                        ELSE None
         IN IF since # None /\ published_at <= since[1]
            THEN openai_scan_continue(items, i + 1, since, clock)
            ELSE <<OpenAINewsEntry(item.link, published_at, content)>>
                 \o openai_scan_continue(items, i + 1, since, clock)

(* The loop of fetch_openai_news from item i on; the break ends the scan. *)
RECURSIVE openai_scan(_, _, _, _)
openai_scan(items, i, since, clock) ==
    IF i > Len(items) THEN <<>>
    ELSE LET item == items[i]
             published_at == _parse_pubdate(item, clock)
             raw_content == IF item.summary = None THEN <<>> ELSE item.summary[1]
             content == IF raw_content # <<>> THEN Some(_strip_html(raw_content))
                        ELSE None
         IN IF since # None /\ published_at <= since[1]
            THEN <<>>
            ELSE <<OpenAINewsEntry(item.link, published_at, content)>>
                 \o openai_scan(items, i + 1, since, clock)

Returned(value) == [exc |-> NoExc, value |-> value]
Raised(exc) == [exc |-> exc, value |-> <<>>]

fetch_openai_news(feed, since, clock) ==
    IF feed.raises THEN Returned(<<>>)
    ELSE IF feed.entries = <<>> THEN Returned(<<>>)
    ELSE Returned(openai_scan(feed.entries, 1, since, clock))

---------------------------------------------------------------------------
(* aggregator/fetchers/smol_ai.py *)

SmolAIEntry(post_id, published_at, content) ==
    [kind |-> "SmolAIEntry", post_id |-> post_id,
     published_at |-> published_at, content |-> content]

smol_strip_html(raw) == Strip(CollapseNewlines(CollapseSpaces(GetText(raw))))

smol_parse_pubdate(item, clock) ==
    IF item.published_parsed # None THEN item.published_parsed[1]
    ELSE IF item.published.kind = "rfc2822" THEN item.published.utc
    ELSE clock

(* fetch_latest_smol_ai_issue reading the last item of the feed. *)
fetch_last_smol_ai_issue(feed, clock) ==
    IF feed.raises THEN Returned(<<>>)
    ELSE IF feed.entries = <<>> THEN Returned(<<>>)
    ELSE LET item == feed.entries[Len(feed.entries)]
             published_at == smol_parse_pubdate(item, clock)
             content_list == item.content
             from_content == IF content_list # <<>> THEN content_list[1] ELSE <<>>
             raw_content == IF from_content # <<>> THEN from_content
                            ELSE IF item.summary = None THEN <<>>
                            ELSE item.summary[1]
             content == IF raw_content # <<>> THEN Some(smol_strip_html(raw_content))
                        ELSE None
         IN Returned(<<SmolAIEntry(item.link, published_at, content)>>)

fetch_latest_smol_ai_issue(feed, clock) ==
    IF feed.raises THEN Returned(<<>>)
    ELSE IF feed.entries = <<>> THEN Returned(<<>>)
    ELSE LET item == feed.entries[1]
             published_at == smol_parse_pubdate(item, clock)
             content_list == item.content
             from_content == IF content_list # <<>> THEN content_list[1] ELSE <<>>
             raw_content == IF from_content # <<>> THEN from_content
                            ELSE IF item.summary = None THEN <<>>
                            ELSE item.summary[1]
             content == IF raw_content # <<>> THEN Some(smol_strip_html(raw_content))
                        ELSE None
         IN Returned(<<SmolAIEntry(item.link, published_at, content)>>)

(* Smol feeds: the first item differs in its dates or in its texts; the    *)
(* items after it differ in their dates.                                   *)
SmolDatedItems == {RssItem(1, d, <<>>, Some(<<"a">>)) : d \in DateFields}

SmolTextItems ==
    {RssItem(1, SomeDate, <<c>>, s) : c \in Raw, s \in {None, Some(<<"a">>)}}
    \cup {RssItem(1, SomeDate, <<>>, s) : s \in OptRaw}

LaterItems(n, ts) ==
    [i \in 1..n |-> RssItem(i + 1, [published_parsed |-> Some(ts[i]),
                                    published |-> EmptyDate], <<>>, None)]

SmolFeeds ==
    {ParseRaises} \cup EmptyFeeds
    \cup {Parsed(<<first>>, FALSE) : first \in SmolTextItems}
    \cup UNION {{Parsed(<<first>> \o LaterItems(n, ts), FALSE) :
                    first \in SmolDatedItems, ts \in [1..n -> Times]} :
                 n \in 0..(MaxFeedLen - 1)}

---------------------------------------------------------------------------
(* aggregator/fetchers/youtube.py: channel resolution *)

(* Characters of a channel reference: "a" and "-" are id characters. *)
IdChars == {"U", "C", "a", "-"}

IdLen == 22

Rep(c, n) == [i \in 1..n |-> c]

(* re.match(r"^UC[\w-]{22}$", s): $ also matches before a final newline. *)
FullId(s) ==
    /\ Len(s) = 2 + IdLen
    /\ s[1] = "U"
    /\ s[2] = "C"
    /\ \A i \in 3..(2 + IdLen) : s[i] \in IdChars

_CHANNEL_ID_RE(s) ==
    \/ FullId(s)
    \/ Len(s) = 3 + IdLen /\ s[Len(s)] = "\n" /\ FullId(SubSeq(s, 1, 2 + IdLen))

(* The page httpx.get gives: an HTTP error status, a network error, or a   *)
(* body.  A body is known by the texts that follow each occurrence of      *)
(* "youtube.com/channel/" in it, in order.                                 *)
Page(status, links) == [status |-> status, links |-> links]

(* re.search(r"youtube\.com/channel/(UC[\w-]{22})", text): the first       *)
(* occurrence followed by UC and 22 id characters, and those 24 characters.*)
RECURSIVE SearchChannelId(_)
SearchChannelId(links) ==
    IF links = <<>> THEN None
    ELSE IF Len(Head(links)) >= 2 + IdLen /\ FullId(SubSeq(Head(links), 1, 2 + IdLen))
         THEN Some(SubSeq(Head(links), 1, 2 + IdLen))
         ELSE SearchChannelId(Tail(links))

HttpGet(url) == [fn |-> "httpx.get", arg |-> url]

(* A result with the calls to the outside world made on the way. *)
Did(exc, value, trace) == [exc |-> exc, value |-> value, trace |-> trace]

_scrape_channel_id(page_url, page) ==
    IF page.status = "HTTPStatusError" THEN Did("ValueError", <<>>, <<HttpGet(page_url)>>)
    ELSE IF page.status = "RequestError" THEN Did("ValueError", <<>>, <<HttpGet(page_url)>>)
    ELSE LET match == SearchChannelId(page.links)
         IN IF match # None THEN Did(NoExc, match[1], <<HttpGet(page_url)>>)
            ELSE Did("ValueError", <<>>, <<HttpGet(page_url)>>)

BaseUrl == <<"https://www.youtube.com/">>

(* resolve_channel_id without channel_input.strip(). *)
resolve_channel_id_unstripped(channel_input, page) ==
    IF _CHANNEL_ID_RE(channel_input) THEN Did(NoExc, channel_input, <<>>)
    ELSE IF channel_input # <<>> /\ channel_input[1] = "@"
         THEN _scrape_channel_id(BaseUrl \o channel_input, page)
         ELSE _scrape_channel_id(BaseUrl \o <<"@">> \o channel_input, page)

resolve_channel_id(channel_input, page) ==
    LET stripped == Strip(channel_input)
    IN IF _CHANNEL_ID_RE(stripped) THEN Did(NoExc, stripped, <<>>)
       ELSE IF stripped # <<>> /\ stripped[1] = "@"
            THEN _scrape_channel_id(BaseUrl \o stripped, page)
            ELSE _scrape_channel_id(BaseUrl \o <<"@">> \o stripped, page)

---------------------------------------------------------------------------
(* aggregator/fetchers/youtube.py: the video feed *)

VideoEntry(video_id, published_at, description, transcript) ==
    [kind |-> "VideoEntry", video_id |-> video_id, published_at |-> published_at,
     description |-> description, transcript |-> transcript]

VideoItem(i, t, media_description, summary) ==
    [yt_videoid |-> i, published_parsed |-> t,
     media_description |-> media_description, summary |-> summary]

(* items[:n] *)
SliceTo(items, n) ==
    IF n >= 0 THEN SubSeq(items, 1, IF n < Len(items) THEN n ELSE Len(items))
    ELSE SubSeq(items, 1, Len(items) + n)

(* x or y, for an optional str x: None and "" are falsy. *)
Truthy(x) == x # None /\ x[1] # <<>>

(* video_scan with break in the place of continue. *)
RECURSIVE video_scan_break(_, _, _, _)
video_scan_break(items, i, since, clock) ==
    IF i > Len(items) THEN <<>>
    ELSE LET item == items[i]
             raw_time == item.published_parsed
             published_at == IF raw_time # None THEN raw_time[1] ELSE clock
             raw_description ==
                 IF Truthy(item.media_description) THEN item.media_description[1]
                 ELSE IF Truthy(item.summary) THEN item.summary[1]
                 ELSE <<>>
             description == IF Strip(raw_description) # <<>>
                            THEN Some(Strip(raw_description)) ELSE None
         IN IF since # None /\ published_at <= since[1]
            THEN <<>>
            ELSE <<VideoEntry(item.yt_videoid, published_at, description, None)>>
                 \o video_scan_break(items, i + 1, since, clock)

(* The loop of fetch_videos from item i on; continue skips the item. *)
RECURSIVE video_scan(_, _, _, _)
video_scan(items, i, since, clock) ==
    IF i > Len(items) THEN <<>>
    ELSE LET item == items[i]
             raw_time == item.published_parsed
             published_at == IF raw_time # None THEN raw_time[1] ELSE clock
             raw_description ==
                 IF Truthy(item.media_description) THEN item.media_description[1]
                 ELSE IF Truthy(item.summary) THEN item.summary[1]
                 ELSE <<>>
             description == IF Strip(raw_description) # <<>>
                            THEN Some(Strip(raw_description)) ELSE None
         IN IF since # None /\ published_at <= since[1]
            THEN video_scan(items, i + 1, since, clock)
            ELSE <<VideoEntry(item.yt_videoid, published_at, description, None)>>
                 \o video_scan(items, i + 1, since, clock)

(* fetch_videos with the cap applied to the filtered list. *)
fetch_videos_cap_kept(feed, since, max_results, clock) ==
    IF feed.raises THEN Raised("RuntimeError")
    ELSE IF feed.bozo /\ feed.entries = <<>> THEN Raised("RuntimeError")
    ELSE Returned(SliceTo(video_scan(feed.entries, 1, since, clock), max_results))

(* fetch_videos raising for every feed flagged malformed. *)
fetch_videos_strict(feed, since, max_results, clock) ==
    IF feed.raises THEN Raised("RuntimeError")
    ELSE IF feed.bozo THEN Raised("RuntimeError")
    ELSE Returned(video_scan(SliceTo(feed.entries, max_results), 1, since, clock))

fetch_videos(feed, since, max_results, clock) ==
    IF feed.raises THEN Raised("RuntimeError")
    ELSE IF feed.bozo /\ feed.entries = <<>> THEN Raised("RuntimeError")
    ELSE Returned(video_scan(SliceTo(feed.entries, max_results), 1, since, clock))

---------------------------------------------------------------------------
(* aggregator/fetchers/youtube.py: transcripts *)

(* What ytt_api.fetch does: raises, or gives snippets; a snippet is known  *)
(* by its text attribute (None when it is missing).                        *)
Fetched(snippets) == [exc |-> NoExc, snippets |-> snippets]
FetchRaises(exc) == [exc |-> exc, snippets |-> <<>>]

RECURSIVE SnippetParts(_)
SnippetParts(snippets) ==
    IF snippets = <<>> THEN <<>>
    ELSE LET attr == Head(snippets)
             text == Strip(IF attr = None THEN <<>> ELSE attr[1])
         IN (IF text # <<>> THEN <<text>> ELSE <<>>) \o SnippetParts(Tail(snippets))

(* get_transcript without the last except clause (except Exception). *)
get_transcript_known_errors(fetched) ==
    IF fetched.exc = "NoTranscriptFound" THEN Returned(None)
    ELSE IF fetched.exc = "TranscriptsDisabled" THEN Returned(None)
    ELSE IF fetched.exc = "VideoUnavailable" THEN Returned(None)
    ELSE IF fetched.exc # NoExc THEN Raised(fetched.exc)
    ELSE LET joined == Join(SnippetParts(fetched.snippets), <<" ">>)
         IN Returned(IF joined # <<>> THEN Some(joined) ELSE None)

get_transcript(fetched) ==
    IF fetched.exc = "NoTranscriptFound" THEN Returned(None)
    ELSE IF fetched.exc = "TranscriptsDisabled" THEN Returned(None)
    ELSE IF fetched.exc = "VideoUnavailable" THEN Returned(None)
    ELSE IF fetched.exc # NoExc THEN Returned(None)
    ELSE LET joined == Join(SnippetParts(fetched.snippets), <<" ">>)
         IN Returned(IF joined # <<>> THEN Some(joined) ELSE None)

---------------------------------------------------------------------------
(* aggregator/fetchers/youtube.py: fetch_channel_videos *)

FeedParse(channel_id) == [fn |-> "feedparser.parse", arg |-> channel_id]
TranscriptFetch(video_id) == [fn |-> "ytt_api.fetch", arg |-> <<video_id>>]

(* The transcript loop taking the videos from the last one to the first. *)
RECURSIVE attach_transcripts_backwards(_, _, _)
attach_transcripts_backwards(videos, i, fetched) ==
    IF i > Len(videos) THEN Did(NoExc, videos, <<>>)
    ELSE LET k == Len(videos) - i + 1
             got == get_transcript(fetched[k])
             event == TranscriptFetch(videos[k].video_id)
         IN IF got.exc # NoExc THEN Did(got.exc, <<>>, <<event>>)
            ELSE LET rest == attach_transcripts_backwards(
                                [videos EXCEPT ![k].transcript = got.value],
                                i + 1, fetched)
                 IN Did(rest.exc, rest.value, <<event>> \o rest.trace)

(* The transcript loop from video i on.  fetched[i] is what the API does   *)
(* for the i-th video.  An exception of get_transcript would leave the     *)
(* loop, and the call.                                                     *)
RECURSIVE attach_transcripts(_, _, _)
attach_transcripts(videos, i, fetched) ==
    IF i > Len(videos) THEN Did(NoExc, videos, <<>>)
    ELSE LET got == get_transcript(fetched[i])
             event == TranscriptFetch(videos[i].video_id)
         IN IF got.exc # NoExc THEN Did(got.exc, <<>>, <<event>>)
            ELSE LET rest == attach_transcripts(
                                [videos EXCEPT ![i].transcript = got.value],
                                i + 1, fetched)
                 IN Did(rest.exc, rest.value, <<event>> \o rest.trace)

fetch_channel_videos(channel_input, since, include_transcripts, max_results, env, clock) ==
    LET resolved == resolve_channel_id(channel_input, env.page)
    IN IF resolved.exc # NoExc THEN resolved
       ELSE LET channel_id == resolved.value
                listed == fetch_videos(env.feed, since, max_results, clock)
                trace == resolved.trace \o <<FeedParse(channel_id)>>
            IN IF listed.exc # NoExc THEN Did(listed.exc, <<>>, trace)
               ELSE IF include_transcripts
                    THEN LET done == attach_transcripts(listed.value, 1, env.fetched)
                         IN Did(done.exc, done.value, trace \o done.trace)
                    ELSE Did(NoExc, listed.value, trace)

---------------------------------------------------------------------------
(* The fetchers called directly *)

NoCall == [op |-> "none"]

Tick ==
    /\ now < MaxTime
    /\ now' = now + 1
    /\ UNCHANGED <<apiVars, runVars>>

(* The caller takes the result; the next call can start. *)
Return ==
    /\ call # NoCall
    /\ call' = NoCall
    /\ prev' = NoCall
    /\ UNCHANGED <<now, runVars>>

Call_fetch_openai_news ==
    /\ call = NoCall
    /\ \E feed \in OpenaiFeeds, since \in OptTimes :
          call' = [op |-> "fetch_openai_news", feed |-> feed, since |-> since,
                   at |-> now, out |-> fetch_openai_news(feed, since, now)]
    /\ prev' = NoCall
    /\ UNCHANGED <<now, runVars>>

Call_fetch_latest_smol_ai_issue ==
    /\ call = NoCall
    /\ \E feed \in SmolFeeds :
          call' = [op |-> "fetch_latest_smol_ai_issue", feed |-> feed,
                   at |-> now, out |-> fetch_latest_smol_ai_issue(feed, now)]
    /\ prev' = NoCall
    /\ UNCHANGED <<now, runVars>>

(* The same call again, the feed unchanged since the call before. *)
Recall_fetch_latest_smol_ai_issue ==
    /\ call.op = "fetch_latest_smol_ai_issue"
    /\ prev = NoCall
    /\ call' = [call EXCEPT !.at = now,
                            !.out = fetch_latest_smol_ai_issue(call.feed, now)]
    /\ prev' = call
    /\ UNCHANGED <<now, runVars>>

(* Channel references: an id, an id one character short or long, an id    *)
(* with a character that is no id character, a handle and a bare name,     *)
(* each with whitespace around it.                                         *)
UC == <<"U", "C">>

ValidId == UC \o Rep("a", IdLen)

ChannelCores ==
    {UC \o Rep("a", n) : n \in {IdLen - 1, IdLen, IdLen + 1}}
    \cup {UC \o Rep("-", IdLen), UC \o Rep("a", IdLen - 1) \o <<"!">>,
          <<"@", "a">>, <<"a">>}

Pads == SeqsUpTo(Whitespace, MaxPad)

ChannelInputs == {l \o core \o r : l \in Pads, core \in ChannelCores, r \in Pads}

LinkTexts ==
    {ValidId, UC \o Rep("-", IdLen), UC \o Rep("a", IdLen - 1),
     UC \o Rep("a", IdLen + 1)}

Pages ==
    {Page("HTTPStatusError", <<>>), Page("RequestError", <<>>)}
    \cup {Page("ok", links) : links \in SeqsUpTo(LinkTexts, 2)}

Call_resolve_channel_id ==
    /\ call = NoCall
    /\ \E channel_input \in ChannelInputs, page \in Pages :
          call' = [op |-> "resolve_channel_id", channel_input |-> channel_input,
                   page |-> page, at |-> now,
                   out |-> resolve_channel_id(channel_input, page)]
    /\ prev' = NoCall
    /\ UNCHANGED <<now, runVars>>

(* Video feeds: items that differ in their dates; a feed flagged malformed *)
(* with no or one entry; one-item feeds whose item differs in its texts.   *)
DatedVideoFeeds ==
    UNION {{Parsed([i \in 1..n |-> VideoItem(i, ts[i], None, None)], FALSE) :
               ts \in [1..n -> OptTimes]} : n \in 0..MaxFeedLen}

MalformedVideoFeeds ==
    {ParseRaises, Parsed(<<>>, TRUE),
     Parsed(<<VideoItem(1, Some(MaxTime), None, None)>>, TRUE)}

TextVideoFeeds ==
    {Parsed(<<VideoItem(1, Some(MaxTime), m, s)>>, FALSE) :
        m \in OptRaw, s \in {None, Some(<<" ">>), Some(<<"a">>)}}

DefaultMaxResults == 50

VideoCalls ==
    ((DatedVideoFeeds \cup MalformedVideoFeeds)
        \X OptTimes \X (0..(MaxFeedLen + 1)))
    \cup (TextVideoFeeds \X {None} \X {DefaultMaxResults})

Call_fetch_videos ==
    /\ call = NoCall
    /\ \E c \in VideoCalls :
          call' = [op |-> "fetch_videos", feed |-> c[1], since |-> c[2],
                   max_results |-> c[3], at |-> now,
                   out |-> fetch_videos(c[1], c[2], c[3], now)]
    /\ prev' = NoCall
    /\ UNCHANGED <<now, runVars>>

TranscriptErrors ==
    {"NoTranscriptFound", "TranscriptsDisabled", "VideoUnavailable", "Exception"}

SnippetTexts == {None} \cup {Some(t) : t \in SeqsUpTo({"a", " "}, 1)}

TranscriptFetches ==
    {FetchRaises(e) : e \in TranscriptErrors}
    \cup {Fetched(sn) : sn \in SeqsUpTo(SnippetTexts, MaxSnippets)}

Call_get_transcript ==
    /\ call = NoCall
    /\ \E fetched \in TranscriptFetches :
          call' = [op |-> "get_transcript", fetched |-> fetched, at |-> now,
                   out |-> get_transcript(fetched)]
    /\ prev' = NoCall
    /\ UNCHANGED <<now, runVars>>

(* Calls of fetch_channel_videos: a channel that resolves with or without  *)
(* a page fetch, or does not; a feed of old and new videos, or a broken    *)
(* one; every way the transcript API can answer for each video.            *)
ChannelRefs ==
    {<<ValidId, Page("ok", <<ValidId>>)>>,
     <<(<<"@", "a">>), Page("ok", <<ValidId>>)>>,
     <<(<<"@", "a">>), Page("ok", <<>>)>>,
     <<(<<"@", "a">>), Page("RequestError", <<>>)>>}

ChannelFeeds ==
    {ParseRaises, Parsed(<<>>, TRUE)}
    \cup UNION {{Parsed([i \in 1..n |-> VideoItem(i, Some(ts[i]), None, None)], FALSE) :
                    ts \in [1..n -> {0, MaxTime}]} : n \in 0..MaxFeedLen}

ChannelFetches ==
    {FetchRaises(e) : e \in TranscriptErrors} \cup {Fetched(<<Some(<<"a">>)>>)}

Call_fetch_channel_videos ==
    /\ call = NoCall
    /\ \E ref \in ChannelRefs, feed \in ChannelFeeds, since \in {None, Some(0)},
          include_transcripts \in BOOLEAN :
          LET listed == fetch_videos(feed, since, DefaultMaxResults, now)
              n == IF /\ include_transcripts
                      /\ resolve_channel_id(ref[1], ref[2]).exc = NoExc
                      /\ listed.exc = NoExc
                   THEN Len(listed.value) ELSE 0
          IN \E fetched \in [1..n -> ChannelFetches] :
                LET env == [page |-> ref[2], feed |-> feed, fetched |-> fetched]
                IN call' = [op |-> "fetch_channel_videos", channel_input |-> ref[1],
                            since |-> since,
                            include_transcripts |-> include_transcripts,
                            max_results |-> DefaultMaxResults, env |-> env, at |-> now,
                            out |-> fetch_channel_videos(ref[1], since,
                                        include_transcripts, DefaultMaxResults,
                                        env, now)]
    /\ prev' = NoCall
    /\ UNCHANGED <<now, runVars>>

---------------------------------------------------------------------------
(* aggregator/runner.py *)

(* The dispatch tables: fetcher key -> callable. *)
_RSS_FETCHERS == [openai_news |-> "fetch_openai_news"]
_NEWSLETTER_FETCHERS == [smol_ai |-> "fetch_latest_smol_ai_issue"]

(* dict[key] with a fallback: a missing key gives the table's one callable. *)
GetOrOnly(table, key) ==
    IF key \in DOMAIN table THEN Some(table[key])
    ELSE Some(table[CHOOSE k \in DOMAIN table : TRUE])

(* dict.get(key): None when the key is missing. *)
Get(table, key) == IF key \in DOMAIN table THEN Some(table[key]) ELSE None

(* extend that leaves out an entry the list already holds. *)
RECURSIVE extend_unique(_, _)
extend_unique(entries, more) ==
    IF more = <<>> THEN entries
    ELSE IF \E i \in 1..Len(entries) : entries[i] = Head(more)
         THEN extend_unique(entries, Tail(more))
         ELSE extend_unique(Append(entries, Head(more)), Tail(more))

(* list.extend *)
extend(entries, more) == entries \o more

(* try_fetch with no except clause: the exception leaves the run. *)
try_fetch_uncaught(out) ==
    IF out.exc = NoExc
    THEN [outcome |-> "ok", entries |-> out.value, escapes |-> NoExc]
    ELSE [outcome |-> "raised", entries |-> <<>>, escapes |-> out.exc]

(* try: entries = fetcher(...); all_entries.extend(entries)                *)
(* except Exception: logger.error(...)                                     *)
(* what the source adds to all_entries, and the exception that leaves the  *)
(* try statement, if any.                                                  *)
try_fetch(out) ==
    IF out.exc = NoExc
    THEN [outcome |-> "ok", entries |-> out.value, escapes |-> NoExc]
    ELSE [outcome |-> "raised", entries |-> <<>>, escapes |-> NoExc]

(* The call fetcher_fn(since=cutoff) of an RSS fetcher.  env.fault is an   *)
(* exception raised inside the fetcher that the fetcher does not catch.    *)
call_rss_fetcher(fetcher_fn, since, env, clock) ==
    IF env.fault THEN Raised("Exception")
    ELSE fetch_openai_news(env.feed, since, clock)

(* The call fetcher_fn() of a newsletter fetcher. *)
call_newsletter_fetcher(fetcher_fn, env, clock) ==
    IF env.fault THEN Raised("Exception")
    ELSE fetch_latest_smol_ai_issue(env.feed, clock)

(* The configured source lists (config/sources.py), of MaxSources sources  *)
(* at most.                                                                *)
FetcherKeys == {"openai_news", "smol_ai", "hn"}

Source(i, key) == [name |-> i, fetcher |-> key]

SourceLists(n) ==
    {[i \in 1..n |-> Source(i, keys[i])] : keys \in [1..n -> FetcherKeys]}

Configs ==
    UNION {UNION {UNION {
        {[YOUTUBE_CHANNELS |-> Rep(<<"@", "a">>, ny), RSS_SOURCES |-> rss,
          NEWSLETTER_SOURCES |-> nl] :
            rss \in SourceLists(nr), nl \in SourceLists(nn)} :
        nn \in 0..(MaxSources - ny - nr)} :
        nr \in 0..(MaxSources - ny)} :
        ny \in 0..MaxSources}

NoConfig == [YOUTUBE_CHANNELS |-> <<>>, RSS_SOURCES |-> <<>>, NEWSLETTER_SOURCES |-> <<>>]

(* The loop that holds the next source to process, once k sources of loop  *)
(* p are done: empty loops are passed over.                                *)
SourcesOf(cfg, p) ==
    IF p = "youtube" THEN cfg.YOUTUBE_CHANNELS
    ELSE IF p = "rss" THEN cfg.RSS_SOURCES
    ELSE cfg.NEWSLETTER_SOURCES

RECURSIVE Position(_, _, _)
Position(cfg, p, k) ==
    IF p = "done" THEN [pc |-> "done", idx |-> 0]
    ELSE IF k < Len(SourcesOf(cfg, p)) THEN [pc |-> p, idx |-> k]
    ELSE Position(cfg, IF p = "youtube" THEN "rss"
                       ELSE IF p = "rss" THEN "newsletter" ELSE "done", 0)

(* What the outside world does during a run. *)
OldAndNewVideos ==
    Parsed(<<VideoItem(1, Some(0), None, None),
             VideoItem(2, Some(MaxTime), None, None)>>, FALSE)

RunVideoEnvs ==
    {[page |-> Page("RequestError", <<>>), feed |-> OldAndNewVideos, fetched |-> <<>>],
     [page |-> Page("ok", <<ValidId>>), feed |-> ParseRaises, fetched |-> <<>>]}
    \cup {[page |-> Page("ok", <<ValidId>>), feed |-> OldAndNewVideos,
           fetched |-> <<f, f>>] :
            f \in {FetchRaises("NoTranscriptFound"), Fetched(<<Some(<<"a">>)>>)}}

At(t) == [published_parsed |-> Some(t), published |-> EmptyDate]

RunRssEnvs ==
    {[fault |-> TRUE, feed |-> ParseRaises],
     [fault |-> FALSE, feed |-> ParseRaises],
     [fault |-> FALSE,
      feed |-> Parsed(<<RssItem(1, At(MaxTime), <<>>, Some(<<"a">>)),
                        RssItem(2, At(0), <<>>, Some(<<"a">>)),
                        RssItem(3, At(MaxTime), <<>>, Some(<<"a">>))>>, FALSE)]}

RunNewsletterEnvs ==
    {[fault |-> TRUE, feed |-> ParseRaises],
     [fault |-> FALSE, feed |-> Parsed(<<RssItem(1, At(0), <<>>, Some(<<"a">>))>>, FALSE)],
     [fault |-> FALSE,
      feed |-> Parsed(<<RssItem(1, At(MaxTime), <<>>, Some(<<"a">>))>>, FALSE)]}

(* What one source did: its loop, its place in its list, the callable     *)
(* that was invoked for it (None when none was), and the list it returned  *)
(* when it returned one.                                                   *)
Logged(p, i, done, invoked) ==
    [kind |-> p, index |-> i, invoked |-> invoked,
     outcome |-> done.outcome, entries |-> done.entries]

Skipped == [outcome |-> "skipped", entries |-> <<>>, escapes |-> NoExc]

(* One source processed: the list grows, and the run goes on to the next   *)
(* source, or ends with the exception that left the try statement.         *)
Processed(done, invoked) ==
    /\ all_entries' = extend(all_entries, done.entries)
    /\ log' = Append(log, Logged(pc, idx + 1, done, invoked))
    /\ escaped' = done.escapes
    /\ LET next == IF done.escapes # NoExc THEN [pc |-> "done", idx |-> 0]
                   ELSE Position(config, pc, idx + 1)
       IN pc' = next.pc /\ idx' = next.idx
    /\ UNCHANGED <<now, config, cutoff, apiVars>>

(* run_all_fetchers(hours) starts: the cutoff is computed. *)
RunStart ==
    /\ pc = "idle"
    /\ \E hours \in 0..MaxHours, cfg \in Configs :
          /\ cutoff' = now - hours
          /\ config' = cfg
          /\ LET first == Position(cfg, "youtube", 0)
             IN pc' = first.pc /\ idx' = first.idx
    /\ all_entries' = <<>>
    /\ log' = <<>>
    /\ escaped' = NoExc
    /\ UNCHANGED <<now, apiVars>>

(* One pass of the loop over YOUTUBE_CHANNELS. *)
RunYoutube ==
    /\ pc = "youtube"
    /\ LET channel == config.YOUTUBE_CHANNELS[idx + 1]
       IN \E env \in RunVideoEnvs :
             Processed(try_fetch(fetch_channel_videos(
                           channel, Some(cutoff), TRUE, DefaultMaxResults, env, now)),
                       Some("fetch_channel_videos"))

(* One pass of the loop over RSS_SOURCES. *)
RunRss ==
    /\ pc = "rss"
    /\ LET source == config.RSS_SOURCES[idx + 1]
           fetcher_fn == Get(_RSS_FETCHERS, source.fetcher)
       IN IF fetcher_fn = None
          THEN Processed(Skipped, None)
          ELSE \E env \in RunRssEnvs :
                  Processed(try_fetch(call_rss_fetcher(
                                fetcher_fn[1], Some(cutoff), env, now)),
                            fetcher_fn)

(* One pass of the loop over NEWSLETTER_SOURCES. *)
RunNewsletter ==
    /\ pc = "newsletter"
    /\ LET source == config.NEWSLETTER_SOURCES[idx + 1]
           fetcher_fn == Get(_NEWSLETTER_FETCHERS, source.fetcher)
       IN IF fetcher_fn = None
          THEN Processed(Skipped, None)
          ELSE \E env \in RunNewsletterEnvs :
                  Processed(try_fetch(call_newsletter_fetcher(fetcher_fn[1], env, now)),
                            fetcher_fn)

InitRun ==
    /\ pc = "idle"
    /\ idx = 0
    /\ config = NoConfig
    /\ cutoff = 0
    /\ all_entries = <<>>
    /\ log = <<>>
    /\ escaped = NoExc

Init ==
    /\ now = MaxTime - 1
    /\ call = NoCall
    /\ prev = NoCall
    /\ InitRun

Next ==
    \/ Tick
    \/ Return
    \/ Call_fetch_openai_news
    \/ Call_fetch_latest_smol_ai_issue
    \/ Recall_fetch_latest_smol_ai_issue
    \/ Call_resolve_channel_id
    \/ Call_fetch_videos
    \/ Call_get_transcript
    \/ Call_fetch_channel_videos

Spec == Init /\ [][Next]_vars

(* run_all_fetchers, from some time on. *)
InitAnyTime ==
    /\ now \in Times
    /\ call = NoCall
    /\ prev = NoCall
    /\ InitRun

NextRun ==
    \/ RunStart
    \/ RunYoutube
    \/ RunRss
    \/ RunNewsletter
    \/ Tick

SpecRun == InitAnyTime /\ [][NextRun]_vars

---------------------------------------------------------------------------
(* Properties *)

IsCall(op) == call.op = op

Min(a, b) == IF a <= b THEN a ELSE b

(* published_at of the i-th item of the feed of the latest fetch_openai_news call *)
OpenaiPublishedAt(i) == _parse_pubdate(call.feed.entries[i], call.at)

OpenaiNewer(i) == call.since = None \/ OpenaiPublishedAt(i) > call.since[1]

(* The place of the first item that is not newer than since, or one past   *)
(* the end of the feed.                                                    *)
OpenaiStop ==
    LET n == Len(call.feed.entries)
    IN CHOOSE k \in 1..(n + 1) :
          /\ k = n + 1 \/ ~OpenaiNewer(k)
          /\ \A j \in 1..(k - 1) : OpenaiNewer(j)

\* C1: fetch_openai_news returns exactly the longest prefix of the feed's
\* items whose published_at is strictly greater than since, in feed order:
\* the first item with published_at <= since ends the scan and no later item
\* is returned, even a newer one.  With since = None every item is returned.
C1_LongestNewerPrefix ==
    IsCall("fetch_openai_news") =>
        LET got == call.out.value
        IN /\ call.out.exc = NoExc
           /\ Len(got) = OpenaiStop - 1
           /\ \A i \in 1..Len(got) :
                 /\ got[i].post_id = call.feed.entries[i].link
                 /\ got[i].published_at = OpenaiPublishedAt(i)
           /\ call.since = None => Len(got) = Len(call.feed.entries)

(* A newer item stands after the item that ended the scan, and the scan    *)
(* had returned something before.                                          *)
C1_Witness ==
    /\ IsCall("fetch_openai_news")
    /\ call.since # None
    /\ Len(call.out.value) >= 1
    /\ \E j \in 1..Len(call.feed.entries) : j > OpenaiStop /\ OpenaiNewer(j)

(* published_at of the i-th item of the feed of the latest fetch_videos call *)
VideoPublishedAt(i) ==
    LET raw_time == call.feed.entries[i].published_parsed
    IN IF raw_time # None THEN raw_time[1] ELSE call.at

VideoNewer(i) == call.since = None \/ VideoPublishedAt(i) > call.since[1]

(* The places of the items fetch_videos is to return. *)
VideoKept ==
    {i \in 1..Min(call.max_results, Len(call.feed.entries)) : VideoNewer(i)}

FeedBroken(feed) == feed.raises \/ (feed.bozo /\ feed.entries = <<>>)

\* C2: fetch_videos returns exactly the items among the first max_results
\* feed items whose published_at is strictly greater than since, in feed
\* order: an item with published_at <= since is skipped and does not end the
\* scan, so a newer item after an older one is still returned.
C2_ScanAndSkip ==
    IsCall("fetch_videos") /\ ~FeedBroken(call.feed) =>
        LET got == call.out.value
        IN /\ call.out.exc = NoExc
           /\ Len(got) = Cardinality(VideoKept)
           /\ \A j \in 1..Len(got) :
                 /\ got[j].video_id \in VideoKept
                 /\ got[j].published_at = VideoPublishedAt(got[j].video_id)
                 /\ j > 1 => got[j - 1].video_id < got[j].video_id

(* A newer item after an older one, both among the first max_results, and  *)
(* the newer one returned.                                                 *)
C2_Witness ==
    /\ IsCall("fetch_videos")
    /\ call.out.exc = NoExc
    /\ \E i, j \in 1..Min(call.max_results, Len(call.feed.entries)) :
          /\ i < j
          /\ ~VideoNewer(i)
          /\ VideoNewer(j)
          /\ \E k \in 1..Len(call.out.value) : call.out.value[k].video_id = j

(* The configured sources in processing order: video channels, then RSS    *)
(* sources, then newsletter sources, each list in configured order.        *)
ProcessingOrder ==
    [i \in 1..Len(config.YOUTUBE_CHANNELS) |-> [kind |-> "youtube", index |-> i]]
    \o [i \in 1..Len(config.RSS_SOURCES) |-> [kind |-> "rss", index |-> i]]
    \o [i \in 1..Len(config.NEWSLETTER_SOURCES) |-> [kind |-> "newsletter", index |-> i]]

(* The sources processed so far are the first ones of the processing       *)
(* order, each processed once; at the end all of them are.                 *)
ProcessedInOrder ==
    /\ Len(log) <= Len(ProcessingOrder)
    /\ \A i \in 1..Len(log) :
          /\ log[i].kind = ProcessingOrder[i].kind
          /\ log[i].index = ProcessingOrder[i].index
    /\ pc = "done" => Len(log) = Len(ProcessingOrder)

Occurs(e, entries) == \E k \in 1..Len(entries) : entries[k] = e

\* C3: in run_all_fetchers, whichever fetcher invocations raise, the run
\* never raises and never stops early: every source configured after a
\* failing one is still processed, and the entries of every source that did
\* not fail are in the returned list.
C3_FailuresIsolated ==
    /\ escaped = NoExc
    /\ ProcessedInOrder
    /\ \A i \in 1..Len(log) :
          log[i].outcome = "ok" =>
              \A k \in 1..Len(log[i].entries) : Occurs(log[i].entries[k], all_entries)

(* The run is over; an RSS source raised, and a newsletter source after it *)
(* gave an entry that is in the list.                                      *)
C3_Witness ==
    /\ pc = "done"
    /\ \E i, j \in 1..Len(log) :
          /\ i < j
          /\ log[i].kind = "rss" /\ log[i].outcome = "raised"
          /\ log[j].kind = "newsletter" /\ log[j].outcome = "ok"
          /\ log[j].entries # <<>>
          /\ Occurs(log[j].entries[1], all_entries)

RECURSIVE ConcatEntries(_)
ConcatEntries(records) ==
    IF records = <<>> THEN <<>>
    ELSE (IF Head(records).outcome = "ok" THEN Head(records).entries ELSE <<>>)
         \o ConcatEntries(Tail(records))

\* C4: the list of run_all_fetchers is exactly the concatenation of the
\* lists the successful fetcher invocations returned, in processing order
\* (video channels, RSS sources, newsletter sources, each in configured
\* order): nothing is sorted across sources and no duplicate is removed.
C4_Concatenation ==
    /\ ProcessedInOrder
    /\ all_entries = ConcatEntries(log)

(* The run is over and the list holds the same entry twice, from two       *)
(* sources, and an older entry before a newer one.                         *)
C4_Witness ==
    /\ pc = "done"
    /\ \E i, j \in 1..Len(all_entries) : i < j /\ all_entries[i] = all_entries[j]
    /\ \E i, j \in 1..Len(all_entries) :
          i < j /\ all_entries[i].published_at < all_entries[j].published_at

\* C5: every entry in the list of run_all_fetchers(hours) has published_at
\* strictly later than cutoff = (UTC time at the start of the run) - hours,
\* whichever kind of source produced it.
C5_AllWithinWindow ==
    \A i \in 1..Len(all_entries) : all_entries[i].published_at > cutoff

(* The first item of the feed of the latest call carries a date that can  *)
(* be read: a structured time, or a string parsedate_to_datetime reads.    *)
FirstItemDated ==
    LET item == call.feed.entries[1]
    IN item.published_parsed # None \/ item.published.kind = "rfc2822"

(* What fetch_latest_smol_ai_issue is to return: nothing for a feed that   *)
(* does not parse or has no items, else one entry, the one a feed of the   *)
(* first item alone gives.                                                 *)
SmolOneEntryFromFirst ==
    LET got == call.out.value
    IN /\ call.out.exc = NoExc
       /\ Len(got) <= 1
       /\ (call.feed.raises \/ call.feed.entries = <<>>) => got = <<>>
       /\ ~(call.feed.raises \/ call.feed.entries = <<>>) =>
             /\ Len(got) = 1
             /\ got[1].post_id = call.feed.entries[1].link
             /\ got = fetch_latest_smol_ai_issue(
                          Parsed(<<call.feed.entries[1]>>, FALSE), call.at).value

Repeated == IsCall("fetch_latest_smol_ai_issue") /\ prev # NoCall

\* C6 as stated: fetch_latest_smol_ai_issue returns at most one entry, none
\* when the parse raises or the feed has no items, else one entry built from
\* the first item whatever the others are; two calls against an unchanged
\* feed return identical lists.
C6_Idempotent ==
    IsCall("fetch_latest_smol_ai_issue") =>
        /\ SmolOneEntryFromFirst
        /\ Repeated => prev.out = call.out

WithoutDate(entries) ==
    [i \in 1..Len(entries) |-> [post_id |-> entries[i].post_id,
                                content |-> entries[i].content]]

\* C6 amended: as above, but two calls against an unchanged feed return
\* identical lists only when the first item carries a date that can be read;
\* when it does not, published_at is the clock reading of each call, and the
\* two lists agree in everything but published_at.
C6_IdempotentWhenDated ==
    IsCall("fetch_latest_smol_ai_issue") =>
        /\ SmolOneEntryFromFirst
        /\ Repeated =>
              /\ Len(prev.out.value) = Len(call.out.value)
              /\ WithoutDate(prev.out.value) = WithoutDate(call.out.value)
              /\ (call.out.value # <<>> /\ FirstItemDated) => prev.out = call.out
              /\ (call.out.value # <<>> /\ ~FirstItemDated) =>
                    /\ prev.out.value[1].published_at = prev.at
                    /\ call.out.value[1].published_at = call.at

(* The same feed of several items fetched twice, at two clock readings,    *)
(* its first item dated: the two lists are the same one entry.             *)
C6_Witness ==
    /\ Repeated
    /\ prev.at < call.at
    /\ Len(call.feed.entries) >= 2
    /\ FirstItemDated
    /\ Len(call.out.value) = 1
    /\ prev.out = call.out

(* The videos fetch_videos lists for the latest fetch_channel_videos call *)
Listed == fetch_videos(call.env.feed, call.since, call.max_results, call.at)

Resolved == resolve_channel_id(call.channel_input, call.env.page)

RECURSIVE TranscriptEvents(_)
TranscriptEvents(trace) ==
    IF trace = <<>> THEN <<>>
    ELSE (IF Head(trace).fn = "ytt_api.fetch" THEN <<Head(trace).arg[1]>> ELSE <<>>)
         \o TranscriptEvents(Tail(trace))

\* C7: in fetch_channel_videos with include_transcripts, a transcript
\* retrieval that fails (no transcript found, transcripts disabled, video
\* unavailable, any other exception) never raises and never drops the video:
\* the video stays in the list with transcript None, and retrieval is still
\* attempted for every video after it.
C7_TranscriptFailuresAbsorbed ==
    (/\ IsCall("fetch_channel_videos")
     /\ call.include_transcripts
     /\ Resolved.exc = NoExc
     /\ Listed.exc = NoExc) =>
        LET got == call.out.value
            videos == Listed.value
        IN /\ call.out.exc = NoExc
           /\ Len(got) = Len(videos)
           /\ \A i \in 1..Len(videos) :
                 /\ got[i].video_id = videos[i].video_id
                 /\ got[i].published_at = videos[i].published_at
                 /\ call.env.fetched[i].exc # NoExc => got[i].transcript = None
           /\ TranscriptEvents(call.out.trace)
                 = [i \in 1..Len(videos) |-> videos[i].video_id]

(* The retrieval failed with an unexpected exception for the first video   *)
(* and gave a transcript for the second.                                   *)
C7_Witness ==
    /\ IsCall("fetch_channel_videos")
    /\ call.include_transcripts
    /\ call.out.exc = NoExc
    /\ Len(call.out.value) >= 2
    /\ call.env.fetched[1].exc = "Exception"
    /\ call.out.value[1].transcript = None
    /\ call.out.value[2].transcript # None

PageFetches(trace) == Len(SelectSeq(trace, LAMBDA e : e.fn = "httpx.get"))

(* One page fetch, and the id found in the page or a resolution error. *)
ResolvedFromPage ==
    LET found == IF call.page.status = "ok" THEN SearchChannelId(call.page.links)
                 ELSE None
    IN /\ Len(call.out.trace) = 1
       /\ PageFetches(call.out.trace) = 1
       /\ IF found # None
          THEN call.out.exc = NoExc /\ call.out.value = found[1]
          ELSE call.out.exc = "ValueError"

\* C8 as stated: resolve_channel_id returns its input unchanged, with no
\* network call, when the input is UC followed by 22 id characters; for
\* every other input it fetches the channel page exactly once and returns
\* the id found in the page or fails with a resolution error.
C8_UnchangedOrOneFetch ==
    IsCall("resolve_channel_id") =>
        IF FullId(call.channel_input)
        THEN /\ call.out.exc = NoExc
             /\ call.out.value = call.channel_input
             /\ call.out.trace = <<>>
        ELSE ResolvedFromPage

\* C8 amended: resolve_channel_id first trims the whitespace around its
\* input; when the trimmed input is UC followed by 22 id characters it
\* returns the trimmed input with no network call (an id with whitespace
\* around it is returned trimmed, without a fetch); for every other input it
\* fetches the channel page exactly once and returns the id found in the
\* page or fails with a resolution error.
C8_TrimmedOrOneFetch ==
    IsCall("resolve_channel_id") =>
        IF FullId(Strip(call.channel_input))
        THEN /\ call.out.exc = NoExc
             /\ call.out.value = Strip(call.channel_input)
             /\ call.out.trace = <<>>
        ELSE ResolvedFromPage

(* An id with whitespace around it came back trimmed, with no fetch. *)
C8_Witness ==
    /\ IsCall("resolve_channel_id")
    /\ Strip(call.channel_input) # call.channel_input
    /\ FullId(Strip(call.channel_input))
    /\ call.out.value = Strip(call.channel_input)
    /\ call.out.trace = <<>>

Empty == Some(<<>>)

\* C10: in every entry a fetcher produces, the optional text fields are
\* None when absent and never the empty string: content of an RSS or
\* newsletter entry, for every raw summary or content value, markup that
\* sanitizes to no text included; description and transcript of a video.
C10_NoEmptyText ==
    /\ (IsCall("fetch_openai_news") \/ IsCall("fetch_latest_smol_ai_issue")) =>
          \A i \in 1..Len(call.out.value) : call.out.value[i].content # Empty
    /\ (IsCall("fetch_videos") \/ IsCall("fetch_channel_videos")) =>
          \A i \in 1..Len(call.out.value) :
              /\ call.out.value[i].description # Empty
              /\ call.out.value[i].transcript # Empty
    /\ IsCall("get_transcript") => call.out.value # Empty

(* The registry a source's fetcher key is looked up in. *)
Registry(kind) == IF kind = "rss" THEN _RSS_FETCHERS ELSE _NEWSLETTER_FETCHERS

(* The log record is of an RSS or newsletter source whose fetcher key is   *)
(* not in its registry.                                                    *)
Unregistered(rec) ==
    /\ rec.kind \in {"rss", "newsletter"}
    /\ SourcesOf(config, rec.kind)[rec.index].fetcher \notin DOMAIN Registry(rec.kind)

RECURSIVE Registered(_)
Registered(records) ==
    IF records = <<>> THEN <<>>
    ELSE (IF Unregistered(Head(records)) THEN <<>> ELSE <<Head(records)>>)
         \o Registered(Tail(records))

\* C11: in run_all_fetchers, an RSS or newsletter source whose fetcher key
\* is not in the registry of its kind is skipped: no fetcher is invoked for
\* it, nothing is raised, it adds no entry to the list, and every other
\* configured source is still processed in order.
C11_UnregisteredSkipped ==
    /\ escaped = NoExc
    /\ ProcessedInOrder
    /\ \A i \in 1..Len(log) :
          Unregistered(log[i]) => log[i].invoked = None /\ log[i].entries = <<>>
    /\ all_entries = ConcatEntries(Registered(log))

(* The run is over; an RSS source and a newsletter source had unregistered *)
(* keys, and a newsletter source after them gave an entry.                 *)
C11_Witness ==
    /\ pc = "done"
    /\ \E i, j, k \in 1..Len(log) :
          /\ i < j /\ j < k
          /\ log[i].kind = "rss" /\ Unregistered(log[i])
          /\ log[j].kind = "newsletter" /\ Unregistered(log[j])
          /\ log[k].outcome = "ok" /\ log[k].invoked # None
          /\ log[k].entries # <<>>
          /\ all_entries = log[k].entries

(* The feed positions fetch_videos examines: the first max_results. *)
Examined == 1..Min(call.max_results, Len(call.feed.entries))

\* C12: in fetch_videos, for every max_results >= 0, the cap is applied to
\* raw feed order before the since-filter: the result has at most
\* max_results entries, each from one of the first max_results feed items,
\* and when none of those is later than since the result is empty, whatever
\* stands at position max_results or later.
C12_CapBeforeFilter ==
    IsCall("fetch_videos") /\ ~FeedBroken(call.feed) /\ call.max_results >= 0 =>
        LET got == call.out.value
        IN /\ call.out.exc = NoExc
           /\ Len(got) <= call.max_results
           /\ \A j \in 1..Len(got) : got[j].video_id \in Examined
           /\ (\A i \in Examined : ~VideoNewer(i)) => got = <<>>

(* The feed is longer than the cap, every item before the cap is filtered  *)
(* out, an item after the cap is later than since, and nothing is returned.*)
C12_Witness ==
    /\ IsCall("fetch_videos")
    /\ call.max_results >= 1
    /\ call.max_results < Len(call.feed.entries)
    /\ \A i \in Examined : ~VideoNewer(i)
    /\ \E j \in 1..Len(call.feed.entries) : j > call.max_results /\ VideoNewer(j)
    /\ call.out = Returned(<<>>)

\* C13: the list returned by fetch_videos, and so by fetch_channel_videos,
\* is sorted newest-first for every feed: of two consecutive entries the
\* earlier one's published_at is greater than or equal to the later one's.
C13_SortedNewestFirst ==
    (IsCall("fetch_videos") \/ IsCall("fetch_channel_videos")) =>
        \A j \in 2..Len(call.out.value) :
            call.out.value[j - 1].published_at >= call.out.value[j].published_at

(* The calls to the outside world that the three steps of the latest       *)
(* fetch_channel_videos call are to make, in order: those of the           *)
(* resolution; the feed request, once the channel is resolved; one         *)
(* transcript request per listed video, in list order, once the videos are *)
(* listed and transcripts are asked for.                                   *)
StepsInOrder ==
    Resolved.trace
    \o (IF Resolved.exc = NoExc THEN <<FeedParse(Resolved.value)>> ELSE <<>>)
    \o (IF Resolved.exc = NoExc /\ Listed.exc = NoExc /\ call.include_transcripts
        THEN [i \in 1..Len(Listed.value) |-> TranscriptFetch(Listed.value[i].video_id)]
        ELSE <<>>)

\* C14: fetch_channel_videos resolves the channel, then fetches the videos,
\* then attaches transcripts: transcript retrieval is invoked exactly once
\* per video fetch_videos returned, one at a time in list order, and only
\* after resolution and the video fetch both succeeded.  It is invoked zero
\* times when include_transcripts is false (every transcript stays None),
\* when resolution fails, or when the video fetch fails, and in the two
\* failure cases the error reaches the caller.
C14_ResolveFetchAttach ==
    IsCall("fetch_channel_videos") =>
        /\ call.out.trace = StepsInOrder
        /\ Resolved.exc # NoExc =>
              /\ call.out.exc = Resolved.exc
              /\ TranscriptEvents(call.out.trace) = <<>>
        /\ Resolved.exc = NoExc /\ Listed.exc # NoExc =>
              /\ call.out.exc = Listed.exc
              /\ TranscriptEvents(call.out.trace) = <<>>
        /\ Resolved.exc = NoExc /\ Listed.exc = NoExc =>
              /\ call.out.exc = NoExc
              /\ Len(call.out.value) = Len(Listed.value)
              /\ ~call.include_transcripts =>
                    /\ TranscriptEvents(call.out.trace) = <<>>
                    /\ call.out.value = Listed.value
                    /\ \A i \in 1..Len(call.out.value) :
                          call.out.value[i].transcript = None

(* The channel was resolved from its page, the feed gave two videos or     *)
(* more, and a transcript was requested for each, the first video first.   *)
C14_Witness ==
    /\ IsCall("fetch_channel_videos")
    /\ call.include_transcripts
    /\ call.out.exc = NoExc
    /\ Len(call.out.value) >= 2
    /\ Len(call.out.trace) = 2 + Len(call.out.value)
    /\ call.out.trace[1].fn = "httpx.get"
    /\ call.out.trace[2].fn = "feedparser.parse"
    /\ call.out.trace[3] = TranscriptFetch(call.out.value[1].video_id)
    /\ call.out.trace[4] = TranscriptFetch(call.out.value[2].video_id)

====
